---- MODULE Spec2Model ----
(***************************************************************************)
(* ezomero.get_image (src/ezomero/_gets.py): the multi-resolution pixel    *)
(* region extraction of one call, step by step, against a model of the     *)
(* remote OMERO image store, inside the wrapper of do_across_groups        *)
(* (src/ezomero/_ezomero.py) that switches the group of the connection.    *)
(*                                                                         *)
(* Axis vectors follow the code: start_coords, axis_lengths and orig_sizes *)
(* are XYZCT (index 1 = X .. 5 = T here, 0..4 in Python); the pixel buffer *)
(* is TZYXC.  Python values that may be None or of a wrong type are        *)
(* records [t |-> <type name>, v |-> <value>].                             *)
(***************************************************************************)
EXTENDS Integers, Sequences, FiniteSets, TLC

(*************************** bounds of the model ***************************)
\* A sampled request reaches at most this far past the extent of the image
\* on an axis: start + length <= size + MaxOverhang.
MaxOverhang == 1

(************************ the remote store (fixture) ***********************)
\* image.getSizeX(), getSizeY(), getSizeZ(), getSizeC(), getSizeT()
ImageSizes == <<2, 2, 2, 1, 2>>

\* The ids conn.getObject('Image', id) resolves.
KnownImages == {314}

\* The group of the session's event context, which the user is logged into:
\* conn.getGroupFromContext().getId().  The images of KnownImages are in it.
SessionGroup == 1

\* A second group the user is a member of, and the images that are in it.
OtherGroup == 2
OtherGroupImages == {316}

\* conn.SERVICE_OPTS.setOmeroGroup('-1'): every group the user can read.
AllGroups == 0 - 1

\* The groups whose summary lists the user as owner or member.
MemberGroups == {SessionGroup, OtherGroup}

\* The group an image is in.
ImageGroup(id) == IF id \in OtherGroupImages THEN OtherGroup ELSE SessionGroup

\* An image of the session's group whose pixels are of the type 'complex'.
ComplexImages == {318}

\* primary_pixels.getPixelsType().value: the pixel type tag the server
\* declares for the image.
PixelsType(id) ==
    IF id \in ComplexImages THEN "complex"
    ELSE IF id \in OtherGroupImages THEN "float"
    ELSE "uint16"

\* A query under group context ctx sees the image.
Visible(id, ctx) ==
    /\ id \in KnownImages \cup OtherGroupImages \cup ComplexImages
    /\ (ctx = AllGroups \/ ctx = ImageGroup(id))

\* pix.getResolutionDescriptions(): (sizeX, sizeY) per level, level 0 first
\* (full resolution), the most decimated level last.
ResolutionDescriptions == << <<2, 2>>, <<2, 1>>, <<1, 1>>, <<1, 1>> >>

NumLevels == Len(ResolutionDescriptions)

Max(a, b) == IF a >= b THEN a ELSE b
Min(a, b) == IF a <= b THEN a ELSE b

\* The pixel stored at public resolution level `level` (0 = full
\* resolution), position (x, y, z, c, t): never 0, and different for every
\* position and level of the fixture.
PixelValue(level, x, y, z, c, t) ==
    1 + x + 4 * y + 16 * z + 64 * c + 256 * t + 1024 * level

(****************************** numpy arrays *******************************)
\* An n-dimensional array: its shape and its elements by 0-based index.
MaxSize == CHOOSE m \in {ImageSizes[k] : k \in 1..5} :
               \A k \in 1..5 : ImageSizes[k] <= m

MaxDim == MaxSize + MaxOverhang

Indices(shape) ==
    {ix \in [1..Len(shape) -> 0..(MaxDim - 1)] :
        \A k \in 1..Len(shape) : ix[k] < shape[k]}

\* np.zeros(shape)
Zeros(shape) == [shape |-> shape, data |-> [ix \in Indices(shape) |-> 0]]

\* The value of a name bound to no array (pixel_view = None).
NoArray == [shape |-> <<>>, data |-> <<>>]

(*************************** Python-side helpers ***************************)
PyNone == [t |-> "NoneType", v |-> <<>>]
PyNoneInt == [t |-> "NoneType", v |-> 0]
PyTuple(s) == [t |-> "tuple", v |-> s]
PyInt(n) == [t |-> "int", v |-> n]
PyStr(s) == [t |-> "str", v |-> s]

\* str.lower() on one character
Lower(ch) ==
    CASE ch = "X" -> "x"
      [] ch = "Y" -> "y"
      [] ch = "Z" -> "z"
      [] ch = "C" -> "c"
      [] ch = "T" -> "t"
      [] OTHER -> ch

\* set(s): the characters as written.
LowerSet_AsWritten(s) == {s[k] : k \in 1..Len(s)}

\* set(s.lower())
LowerSet(s) == {Lower(s[k]) : k \in 1..Len(s)}

Letters == {"x", "y", "z", "c", "t"}

\* 'tzyxc': the axis letters of the canonical buffer, in buffer order
Canonical == <<"t", "z", "y", "x", "c">>

\* dict(zip(dim_order, range(5))): the keys are the first five characters as
\* written, a repeated key keeps its last position (0-based).
OrderDictKeys(dim_order) == {dim_order[k] : k \in 1..Min(5, Len(dim_order))}

OrderDict(dim_order) ==
    [ch \in OrderDictKeys(dim_order) |->
        CHOOSE j \in 0..4 :
            /\ j + 1 <= Len(dim_order)
            /\ dim_order[j + 1] = ch
            /\ \A j2 \in 0..4 :
                   (j2 + 1 <= Len(dim_order) /\ dim_order[j2 + 1] = ch) => j2 <= j]

\* [order_dict[c.lower()] for c in 'tzyxc'] raises KeyError for a letter that
\* is no key of the dict.
OrderVectorOk(dim_order) ==
    \A k \in 1..5 : Lower(Canonical[k]) \in OrderDictKeys(dim_order)

OrderVector(dim_order) ==
    [k \in 1..5 |-> OrderDict(dim_order)[Lower(Canonical[k])]]

\* np.moveaxis(a, [0, 1, 2, 3, 4], dest): source axis k becomes axis dest[k]
\* of the view; numpy refuses a dest with a repeated axis.
MoveAxisOk(dest) == \A j, k \in 1..5 : dest[j] = dest[k] => j = k

MoveAxis(a, dest) ==
    LET vshape == [d \in 1..5 |->
                      a.shape[CHOOSE k \in 1..5 : dest[k] + 1 = d]]
    IN [shape |-> vshape,
        data  |-> [jx \in Indices(vshape) |->
                      a.data[[k \in 1..5 |-> jx[dest[k] + 1]]]]]

\* The destination vector of the xyzct=True branch: T,Z,Y,X,C -> X,Y,Z,C,T.
XyzctDest == <<4, 2, 1, 0, 3>>

\* The reordering with xyzct looked at before dim_order.
Reorder_XyzctFirst(pixels, dim_order, xyzct) ==
    IF xyzct = TRUE
    THEN MoveAxis(pixels, XyzctDest)
    ELSE IF dim_order.t # "NoneType"
         THEN MoveAxis(pixels, OrderVector(dim_order.v))
         ELSE pixels

\* The reordering block of get_image: dim_order wins over xyzct.
Reorder(pixels, dim_order, xyzct) ==
    IF dim_order.t # "NoneType"
    THEN MoveAxis(pixels, OrderVector(dim_order.v))
    ELSE IF xyzct = TRUE
         THEN MoveAxis(pixels, XyzctDest)
         ELSE pixels

\* The overhangs taken against the native extent whatever the level.
Overhangs_Native(axis_lengths, start_coords, orig_sizes) ==
    [k \in 1..5 |-> Max(0, (axis_lengths[k] + start_coords[k]) - ImageSizes[k])]

\* overhangs = [np.max((0, (al + sc) - osz)) ...]
Overhangs(axis_lengths, start_coords, orig_sizes) ==
    [k \in 1..5 |-> Max(0, (axis_lengths[k] + start_coords[k]) - orig_sizes[k])]

AnyOverhang(overhangs) == \E k \in 1..5 : overhangs[k] > 0

\* axis_lengths = [al - oh for al, oh in zip(axis_lengths, overhangs)]
Trim(axis_lengths, overhangs) ==
    [k \in 1..5 |-> axis_lengths[k] - overhangs[k]]

\* The default taken against the native extent whatever the level.
DefaultLengths_Native(sizes, start_coords) ==
    [k \in 1..5 |-> ImageSizes[k] - start_coords[k]]

\* The default axis_lengths: the rest of the extent from start_coords.
DefaultLengths(sizes, start_coords) ==
    [k \in 1..5 |-> sizes[k] - start_coords[k]]

\* The shape with Y and X exchanged.
ReorderedSizes_Tzxyc(axis_lengths) ==
    <<axis_lengths[5], axis_lengths[3], axis_lengths[1],
      axis_lengths[2], axis_lengths[4]>>

\* reordered_sizes: the TZYXC shape of the buffer
ReorderedSizes(axis_lengths) ==
    <<axis_lengths[5], axis_lengths[3], axis_lengths[2],
      axis_lengths[1], axis_lengths[4]>>

\* The list of the loops less its last triple.
ZctList_NoLast(start_coords, axis_lengths) ==
    LET nz == Max(0, axis_lengths[3])
        nc == Max(0, axis_lengths[4])
        nt == Max(0, axis_lengths[5])
    IN [n \in 1..((nz * nc * nt) - 1) |->
           <<start_coords[3] + ((n - 1) \div (nc * nt)),
             start_coords[4] + (((n - 1) \div nt) % nc),
             start_coords[5] + ((n - 1) % nt)>>]

\* The list of the loops with its first triple once more in the place of
\* its last.
ZctList_FirstAgain(start_coords, axis_lengths) ==
    LET nz == Max(0, axis_lengths[3])
        nc == Max(0, axis_lengths[4])
        nt == Max(0, axis_lengths[5])
        at(n) == IF n = nz * nc * nt THEN 1 ELSE n
    IN [n \in 1..(nz * nc * nt) |->
           <<start_coords[3] + ((at(n) - 1) \div (nc * nt)),
             start_coords[4] + (((at(n) - 1) \div nt) % nc),
             start_coords[5] + ((at(n) - 1) % nt)>>]

\* The loops nested the other way: t outermost, then c, z innermost.
ZctList_TOuter(start_coords, axis_lengths) ==
    LET nz == Max(0, axis_lengths[3])
        nc == Max(0, axis_lengths[4])
        nt == Max(0, axis_lengths[5])
    IN [n \in 1..(nz * nc * nt) |->
           <<start_coords[3] + ((n - 1) % nz),
             start_coords[4] + (((n - 1) \div nz) % nc),
             start_coords[5] + ((n - 1) \div (nc * nz))>>]

\* The three nested range() loops: z outermost, then c, t innermost; a
\* range of non-positive length is empty.
ZctList(start_coords, axis_lengths) ==
    LET nz == Max(0, axis_lengths[3])
        nc == Max(0, axis_lengths[4])
        nt == Max(0, axis_lengths[5])
    IN [n \in 1..(nz * nc * nt) |->
           <<start_coords[3] + ((n - 1) \div (nc * nt)),
             start_coords[4] + (((n - 1) \div nt) % nc),
             start_coords[5] + ((n - 1) % nt)>>]

\* len(a[:n]) on an axis of length dim (a negative n counts from the end)
SliceLen(n, dim) == IF n >= 0 THEN Min(n, dim) ELSE Max(0, dim + n)

\* pixels[t, z, :axis_lengths[1], :axis_lengths[0], c] = plane is accepted
\* when the plane broadcasts to the shape of the slot.
WriteOk(pixels, axis_lengths, plane) ==
    LET th == SliceLen(axis_lengths[2], pixels.shape[3])
        tw == SliceLen(axis_lengths[1], pixels.shape[4])
    IN /\ (plane.shape[1] = th \/ plane.shape[1] = 1)
       /\ (plane.shape[2] = tw \/ plane.shape[2] = 1)

\* The rows of the plane written right to left.
WritePlane_Mirrored(pixels, t, z, c, axis_lengths, plane) ==
    LET th == SliceLen(axis_lengths[2], pixels.shape[3])
        tw == SliceLen(axis_lengths[1], pixels.shape[4])
    IN [pixels EXCEPT !.data =
           [ix \in DOMAIN pixels.data |->
               IF /\ ix[1] = t /\ ix[2] = z /\ ix[5] = c
                  /\ ix[3] < th /\ ix[4] < tw
               THEN plane.data[<<IF plane.shape[1] = 1 THEN 0 ELSE ix[3],
                                 IF plane.shape[2] = 1 THEN 0
                                 ELSE (tw - 1) - ix[4]>>]
               ELSE pixels.data[ix]]]

WritePlane(pixels, t, z, c, axis_lengths, plane) ==
    LET th == SliceLen(axis_lengths[2], pixels.shape[3])
        tw == SliceLen(axis_lengths[1], pixels.shape[4])
    IN [pixels EXCEPT !.data =
           [ix \in DOMAIN pixels.data |->
               IF /\ ix[1] = t /\ ix[2] = z /\ ix[5] = c
                  /\ ix[3] < th /\ ix[4] < tw
               THEN plane.data[<<IF plane.shape[1] = 1 THEN 0 ELSE ix[3],
                                 IF plane.shape[2] = 1 THEN 0 ELSE ix[4]>>]
               ELSE pixels.data[ix]]]

(*********************** the remote store, continued ***********************)
\* A (z, c, t) triple and an (x, y, w, h) window the store can serve at a
\* level whose planes are width x height.
InStore(zct, tile, width, height) ==
    /\ zct[1] >= 0 /\ zct[1] < ImageSizes[3]
    /\ zct[2] >= 0 /\ zct[2] < ImageSizes[4]
    /\ zct[3] >= 0 /\ zct[3] < ImageSizes[5]
    /\ tile[1] >= 0 /\ tile[2] >= 0 /\ tile[3] > 0 /\ tile[4] > 0
    /\ tile[1] + tile[3] <= width
    /\ tile[2] + tile[4] <= height

\* One element of the generator primary_pixels.getTiles() returns: the
\* (h, w) array of the window of plane (z, c, t) at full resolution.
NativeTile(zct, tile) ==
    LET shape == <<tile[4], tile[3]>>
    IN [shape |-> shape,
        data  |-> [ix \in Indices(shape) |->
                      PixelValue(0, tile[1] + ix[2], tile[2] + ix[1],
                                 zct[1], zct[2], zct[3])]]

\* One element of primary_pixels.getPlanes(): the whole (sizeY, sizeX) plane.
NativePlane(zct) == NativeTile(zct, <<0, 0, ImageSizes[1], ImageSizes[2]>>)

\* The raw store counts resolution levels from the most decimated one: its
\* index r holds public level NumLevels - 1 - r.
PublicLevel(r) == NumLevels - 1 - r

ValidRawLevel(r) == r >= 0 /\ r < NumLevels

\* pix.getTile(z, c, t, x, y, w, h): the window's elements, row by row, as a
\* flat buffer, at the resolution level the channel is set to.
RawTile(r, zct, tile) ==
    [n \in 1..(tile[3] * tile[4]) |->
        PixelValue(PublicLevel(r),
                   tile[1] + ((n - 1) % tile[3]),
                   tile[2] + ((n - 1) \div tile[3]),
                   zct[1], zct[2], zct[3])]

\* pix.getPlane(z, c, t): the whole plane of that level as a flat buffer.
RawPlane(r, zct) ==
    RawTile(r, zct, <<0, 0, ResolutionDescriptions[PublicLevel(r) + 1][1],
                            ResolutionDescriptions[PublicLevel(r) + 1][2]>>)

\* The bytes one pixel takes in a buffer of the raw store, by pixel type tag.
TagSize(tag) ==
    CASE tag \in {"int8", "uint8"} -> 1
      [] tag \in {"int16", "uint16"} -> 2
      [] tag \in {"int32", "uint32", "float"} -> 4
      [] tag \in {"double", "complex"} -> 8
      [] OTHER -> 16

\* PIXEL_TYPES: the numpy type of each pixel type tag it has a key for.
PIXEL_TYPES ==
    [tag \in {"int8", "uint8", "int16", "uint16", "int32", "uint32",
              "float", "double"} |->
        CASE tag = "float" -> "float32"
          [] tag = "double" -> "float64"
          [] OTHER -> tag]

\* PIXEL_TYPES.get(tag, None)
PixelTypesGet(tag) ==
    IF tag \in DOMAIN PIXEL_TYPES THEN PIXEL_TYPES[tag] ELSE "None"

\* The element type np.frombuffer(buf, dtype=dtype) reads the bytes as:
\* numpy takes dtype=None for its default, float64.
FromBufferType(dtype) == IF dtype = "None" THEN "float64" ELSE dtype

\* The bytes of one element of a numpy type.
ItemSize(type) ==
    CASE type \in {"int8", "uint8"} -> 1
      [] type \in {"int16", "uint16"} -> 2
      [] type \in {"int32", "uint32", "float32"} -> 4
      [] OTHER -> 8

\* np.frombuffer refuses a buffer whose size is no multiple of the size of
\* an element.
FromBufferOk(buf, tag, dtype) ==
    (Len(buf) * TagSize(tag)) % ItemSize(FromBufferType(dtype)) = 0

\* np.frombuffer(buf, dtype=dtype) on a buffer the store filled with pixels
\* of type `tag`: the bytes cut into elements of the size of the type they
\* are read as.  An element is told here by the pixel its first byte comes
\* from; the number those bytes spell under another type is left out.
FromBuffer(buf, tag, dtype) ==
    [k \in 1..((Len(buf) * TagSize(tag)) \div ItemSize(FromBufferType(dtype))) |->
        buf[(((k - 1) * ItemSize(FromBufferType(dtype))) \div TagSize(tag)) + 1]]

\* np.frombuffer(buf).reshape((h, w)): row-major, refused unless the buffer
\* holds exactly h * w elements.
ReshapeOk(buf, h, w) == h >= 0 /\ w >= 0 /\ Len(buf) = h * w

Reshape(buf, h, w) ==
    [shape |-> <<h, w>>,
     data  |-> [ix \in Indices(<<h, w>>) |-> buf[ix[1] * w + ix[2] + 1]]]

(************************* the calls that are made *************************)
\* The (start, length) pairs sampled on axis k.
AxisPairs(k) ==
    {p \in (0..(ImageSizes[k] + MaxOverhang - 1))
              \X (1..(ImageSizes[k] + MaxOverhang)) :
        p[1] + p[2] <= ImageSizes[k] + MaxOverhang}

\* The whole axis.
WholeAxis(k) == <<0, ImageSizes[k]>>

\* The requests that leave all of `axes` whole but at most one.
VaryOne(axes) ==
    {[k \in axes |-> WholeAxis(k)]}
        \cup UNION {{[k \in axes |-> IF k = a THEN p ELSE WholeAxis(k)] :
                        p \in AxisPairs(a)} : a \in axes}

\* X and Y: one of them varies, or both take the same pair.
SpatialPairs ==
    VaryOne({1, 2}) \cup {[k \in {1, 2} |-> p] : p \in AxisPairs(1) \cap AxisPairs(2)}

Regions ==
    {[k \in 1..5 |-> IF k \in {1, 2} THEN s[k] ELSE d[k]] :
        s \in SpatialPairs, d \in VaryOne({3, 4, 5})}

StartOf(r) == [k \in 1..5 |-> r[k][1]]
LengthsOf(r) == [k \in 1..5 |-> r[k][2]]

\* (start_coords, axis_lengths) as passed: both given, both omitted, or
\* one of them alone.
RegionArgsOf(regions) ==
    {<<PyTuple(StartOf(r)), PyTuple(LengthsOf(r))>> : r \in regions}
        \cup {<<PyNone, PyNone>>}
        \cup {<<PyTuple(StartOf(r)), PyNone>> : r \in VaryOne({1, 2, 3, 4, 5})}
        \cup {<<PyNone, PyTuple(LengthsOf(r))>> : r \in VaryOne({1, 2, 3, 4, 5})}

RegionArgs == RegionArgsOf(Regions)

\* The regions sampled for the calls that never come to read a region, or
\* that end before they return one: those that vary in X alone.
FewRegionArgs ==
    RegionArgsOf({[k \in 1..5 |-> IF k = 1 THEN p ELSE WholeAxis(k)] :
                     p \in AxisPairs(1)})

\* (xyzct, dim_order) as passed: no dim_order, or a lower-case permutation
PlainOrderArgs ==
    {<<FALSE, PyNone>>,
     <<TRUE, PyNone>>,
     <<FALSE, PyStr(<<"x", "y", "z", "c", "t">>)>>,
     <<TRUE, PyStr(<<"t", "z", "y", "x", "c">>)>>}

\* (xyzct, dim_order) as passed
OrderArgs ==
    PlainOrderArgs
        \cup {<<FALSE, PyStr(<<"X", "Y", "Z", "C", "T">>)>>,
              <<FALSE, PyStr(<<"x", "y", "z", "c">>)>>,
              <<TRUE, PyStr(<<"x", "x", "y", "z", "c", "t">>)>>}

\* pyramid_level as passed: omitted, a str, or an int from -1 to two past
\* the last level.
LevelArgs ==
    {PyNoneInt, [t |-> "str", v |-> 0]}
        \cup {PyInt(n) : n \in (0 - 1)..(NumLevels + 1)}

\* image_id as passed: an id the server resolves and one it does not.
ImageIdArgs == {PyInt(id) : id \in KnownImages \cup {315}}

\* image_id as an id of the other group, as None and as a str.
MoreImageIdArgs ==
    {PyInt(id) : id \in OtherGroupImages} \cup {PyNoneInt, [t |-> "str", v |-> 0]}

\* image_id as the id of an image of complex pixels.
ComplexImageIdArgs == {PyInt(id) : id \in ComplexImages}

\* across_groups as passed: left out, by keyword, or as the tenth positional
\* argument; v is the value get_image binds to the name.
AcrossGroupsOmitted == [how |-> "omitted", v |-> TRUE]

AcrossGroupsArgs ==
    {AcrossGroupsOmitted}
        \cup {[how |-> h, v |-> b] : h \in {"keyword", "positional"}, b \in BOOLEAN}

\* start_coords or axis_lengths of a length that is not 5, or no list or tuple.
ShortTuple == PyTuple(<<0, 0, 0, 0>>)
LongTuple == PyTuple(<<1, 1, 1, 1, 1, 1>>)
NoSequence == [t |-> "int", v |-> <<>>]

BadSequences == {ShortTuple, LongTuple, NoSequence}

\* (start_coords, axis_lengths) with one of the two, or both, of those.
BadRegionArgs ==
    {ra \in ({PyNone, PyTuple(<<0, 0, 0, 0, 0>>), ShortTuple, NoSequence}
                \X {PyNone, [t |-> "list", v |-> ImageSizes], LongTuple, NoSequence}) :
        ra[1] \in BadSequences \/ ra[2] \in BadSequences}

\* The whole image, by default and in full, and one region that overhangs it.
TinyRegionArgs ==
    {<<PyNone, PyNone>>,
     <<PyTuple(<<0, 0, 0, 0, 0>>), PyTuple(ImageSizes)>>,
     <<PyTuple(<<0, 0, 0, 0, 0>>),
       PyTuple([k \in 1..5 |-> IF k = 3 THEN ImageSizes[k] + 1 ELSE ImageSizes[k]])>>}

\* (xyzct, dim_order) with a dim_order in mixed case, a permutation that is
\* neither TZYXC nor XYZCT, a foreign letter, and one that is no str.
MoreOrderArgs ==
    {<<FALSE, PyStr(<<"T", "z", "Y", "x", "C">>)>>,
     <<TRUE, PyStr(<<"c", "x", "y", "t", "z">>)>>,
     <<FALSE, PyStr(<<"x", "y", "z", "c", "q">>)>>,
     <<TRUE, [t |-> "int", v |-> <<>>]>>}

\* pyramid_level left out, a str, full resolution and the first level below.
FewLevelArgs == {PyNoneInt, [t |-> "str", v |-> 0], PyInt(0), PyInt(1)}

CallRecord(id, np, ra, oa, pd, lv, ag) ==
    [image_id      |-> id,
     no_pixels     |-> np,
     start_coords  |-> ra[1],
     axis_lengths  |-> ra[2],
     xyzct         |-> oa[1],
     pad           |-> pd,
     pyramid_level |-> lv,
     dim_order     |-> oa[2],
     across_groups |-> ag]

\* pyramid_level left out or a level the image has.
PixelLevelArgs == {PyNoneInt} \cup {PyInt(n) : n \in 0..(NumLevels - 1)}

\* The calls made.  With across_groups left out: the calls that come to
\* return the pixels of an image of the session's group take every sampled
\* region, the others (no pixels asked, an image the server has not, a
\* dim_order or a pyramid_level that stops the call) take the few.
SampledRegions(id, np, ra, oa, lv) ==
    \/ /\ id.v \in KnownImages /\ np = FALSE /\ oa \in PlainOrderArgs
       /\ lv \in PixelLevelArgs
    \/ ra \in FewRegionArgs \cup TinyRegionArgs

\* Every way of passing across_groups with every image_id, and every
\* dim_order, on the tiny regions.
SampledArguments(id, oa, ag) ==
    \/ oa \in {<<FALSE, PyNone>>, <<TRUE, PyNone>>}
    \/ id.v \in KnownImages /\ ag = AcrossGroupsOmitted

\* across_groups as passed with a start_coords or axis_lengths that the
\* argument checks refuse, every other parameter taking every value.
FewAcrossGroupsArgs == {AcrossGroupsOmitted, [how |-> "keyword", v |-> FALSE]}

\* The argument checks with the length checks answered by TypeError.
ArgumentError_LengthAsType(a) ==
    IF a.start_coords.t # "NoneType"
    THEN "TypeError"
    ELSE IF a.axis_lengths.t # "NoneType" /\ a.axis_lengths.t \notin {"list", "tuple"}
    THEN "TypeError"
    ELSE IF a.axis_lengths.t # "NoneType" /\ Len(a.axis_lengths.v) # 5
    THEN "TypeError"
    ELSE ""

\* The argument checks at the head of get_image, in the order of the code:
\* the exception raised, "" when the arguments pass.
ArgumentError(a) ==
    IF a.start_coords.t # "NoneType" /\ a.start_coords.t \notin {"list", "tuple"}
    THEN "TypeError"
    ELSE IF a.start_coords.t # "NoneType" /\ Len(a.start_coords.v) # 5
    THEN "ValueError"
    ELSE IF a.axis_lengths.t # "NoneType" /\ a.axis_lengths.t \notin {"list", "tuple"}
    THEN "TypeError"
    ELSE IF a.axis_lengths.t # "NoneType" /\ Len(a.axis_lengths.v) # 5
    THEN "ValueError"
    ELSE IF a.image_id.t = "NoneType"
    THEN "TypeError"
    ELSE IF a.image_id.t # "int"
    THEN "TypeError"
    ELSE IF a.pyramid_level.t # "NoneType" /\ a.pyramid_level.t # "int"
    THEN "TypeError"
    ELSE IF a.dim_order.t # "NoneType" /\ a.dim_order.t # "str"
    THEN "TypeError"
    ELSE IF a.dim_order.t # "NoneType" /\ LowerSet(a.dim_order.v) # Letters
    THEN "ValueError"
    ELSE ""

(******************************** the state ********************************)
VARIABLES
    args,             \* the arguments of the call
    pc,               \* where the call is
    err,              \* the exception the call raised, "" for none
    result,           \* the pair the call returned
    image,            \* "unbound", "None" or "ImageWrapper"
    orig_sizes,       \* the XYZCT extent at the active resolution
    start_coords,     \* the local start_coords once defaulted
    axis_lengths,     \* the local axis_lengths, trimmed in place
    reordered_sizes,  \* the TZYXC shape of the buffer
    pixels,           \* the canonical buffer
    pixel_view,       \* the view to return: [t |-> "NoneType"] until taken
    allocated,        \* np.zeros has returned the buffer
    zct_list,         \* the (z, c, t) triples to fetch, in order
    whole_plane,      \* whole-plane reads rather than tiles
    i,                \* planes written so far by the full-resolution loop
    plane_gen,        \* planes read so far from the raw channel
    dtype,            \* the local dtype of the explicit-level branch
    pix,              \* the raw pixel channel: "absent", "open", "closed"
    resolutionLevel,  \* the index the raw channel is set to, -1 before
    calls,            \* every call made to the server, in order
    warnings,         \* logging.warning calls made
    wrapper_pc,       \* where the wrapper is: "entry", "in_f", "done", "raised"
    current_group,    \* the wrapper's current_group, 0 while unbound
    omeroGroup,       \* the group of conn.SERVICE_OPTS
    other             \* a second call on the same connection

vars == <<args, pc, err, result, image, orig_sizes, start_coords,
          axis_lengths, reordered_sizes, pixels, pixel_view, allocated, zct_list,
          whole_plane, i, plane_gen, dtype, pix, resolutionLevel, calls,
          warnings, wrapper_pc, current_group, omeroGroup, other>>

\* What the body of get_image leaves alone.
wrapper == <<wrapper_pc, current_group, omeroGroup, other>>

locals == <<orig_sizes, start_coords, axis_lengths, reordered_sizes, pixels,
            allocated, zct_list, whole_plane, dtype>>

\* A call made to the server: the operation, its arguments and, for the
\* queries the gateway sends with conn.SERVICE_OPTS, the group of their
\* context.
NoContext == 0

Call(op, a) == [op |-> op, a |-> a, ctx |-> NoContext]

CallUnder(op, a, ctx) == [op |-> op, a |-> a, ctx |-> ctx]

\* pixel_view = None
NoView == [t |-> "NoneType", v |-> NoArray]

View(a) == [t |-> "ndarray", v |-> a]

\* The pair a call returns; nothing is returned yet in NoResult.
NoResult == [image |-> "unbound", pixels |-> NoView]

\* A second call on the connection, get_image(conn, image_id, no_pixels=True)
\* with across_groups as given: where it is, the wrapper's current_group,
\* the image it found and the group context its lookup ran under.
OtherCall(p, id, ag) ==
    [pc |-> p, image_id |-> id, across_groups |-> ag, current_group |-> 0,
     image |-> "unbound", ctx |-> NoContext]

\* No second call.
NoOther == OtherCall("absent", 0, AcrossGroupsOmitted)

InitBody ==
    /\ pc = "call"
    /\ err = ""
    /\ result = NoResult
    /\ image = "unbound"
    /\ orig_sizes = <<>>
    /\ start_coords = <<>>
    /\ axis_lengths = <<>>
    /\ reordered_sizes = <<>>
    /\ pixels = NoArray
    /\ pixel_view = NoView
    /\ allocated = FALSE
    /\ zct_list = <<>>
    /\ whole_plane = FALSE
    /\ i = 0
    /\ plane_gen = <<>>
    /\ dtype = "unbound"
    /\ pix = "absent"
    /\ resolutionLevel = 0 - 1
    /\ calls = <<>>
    /\ warnings = 0

\* The locals of a call that has not begun, on a connection whose
\* SERVICE_OPTS hold the group of the session.
InitCall ==
    /\ wrapper_pc = "entry"
    /\ current_group = 0
    /\ omeroGroup = SessionGroup
    /\ InitBody

InitRegions ==
    \E id \in ImageIdArgs, np \in BOOLEAN, ra \in RegionArgs,
       oa \in OrderArgs, pd \in BOOLEAN, lv \in LevelArgs :
        /\ SampledRegions(id, np, ra, oa, lv)
        /\ args = CallRecord(id, np, ra, oa, pd, lv, AcrossGroupsOmitted)

InitArguments ==
    \E id \in ImageIdArgs \cup MoreImageIdArgs \cup ComplexImageIdArgs,
       np \in BOOLEAN,
       ra \in TinyRegionArgs, oa \in OrderArgs \cup MoreOrderArgs,
       pd \in BOOLEAN, lv \in FewLevelArgs, ag \in AcrossGroupsArgs :
        /\ SampledArguments(id, oa, ag)
        /\ args = CallRecord(id, np, ra, oa, pd, lv, ag)

InitBadRegions ==
    \E id \in ImageIdArgs \cup MoreImageIdArgs, np \in BOOLEAN,
       ra \in BadRegionArgs, oa \in OrderArgs \cup MoreOrderArgs,
       pd \in BOOLEAN, lv \in FewLevelArgs, ag \in FewAcrossGroupsArgs :
        args = CallRecord(id, np, ra, oa, pd, lv, ag)

Init ==
    /\ InitRegions \/ InitArguments \/ InitBadRegions
    /\ other = NoOther
    /\ InitCall

\* raise: the call ends with the exception, everything else as it is.
Raise(e) == pc' = "raised" /\ err' = e

\* The wrapper's do_across_groups flag: kwargs['across_groups'] when the
\* caller passed the keyword, the default of the signature (True) when it
\* did not, a positional across_groups being no keyword.
DoAcrossGroups(ag) == IF ag.how = "keyword" THEN ag.v ELSE TRUE

\* do_across_groups, lines 49-63: the wrapper up to the call of f.  It reads
\* the group of the session from the server and points SERVICE_OPTS at all
\* groups, or does neither.
Wrapper ==
    /\ wrapper_pc = "entry"
    /\ wrapper_pc' = "in_f"
    /\ IF DoAcrossGroups(args.across_groups)
       THEN /\ calls' = Append(calls, Call("getGroupFromContext", <<>>))
            /\ current_group' = SessionGroup
            /\ omeroGroup' = AllGroups
       ELSE UNCHANGED <<calls, current_group, omeroGroup>>
    /\ UNCHANGED <<args, pc, err, result, image, locals, pixel_view, i,
                   plane_gen, pix, resolutionLevel, warnings, other>>

\* set_group: the group SERVICE_OPTS hold after set_group(conn, group_id) was
\* called under the group ctx: group_id when the user is an owner or a
\* member of it, ctx as it was otherwise.
SetGroup(group_id, ctx) == IF group_id \in MemberGroups THEN group_id ELSE ctx

\* do_across_groups, lines 64-68: f has returned; set_group(conn,
\* current_group) when the wrapper switched the group, and the return.
WrapperReturn ==
    /\ wrapper_pc = "in_f"
    /\ pc = "returned"
    /\ wrapper_pc' = "done"
    /\ IF DoAcrossGroups(args.across_groups)
       THEN /\ calls' = calls \o <<Call("getExperimenterGroup", <<current_group>>),
                                    Call("groupSummary", <<>>)>>
            /\ omeroGroup' = SetGroup(current_group, omeroGroup)
            /\ warnings' = IF current_group \in MemberGroups THEN warnings
                                                             ELSE warnings + 1
       ELSE UNCHANGED <<calls, omeroGroup, warnings>>
    /\ UNCHANGED <<args, pc, err, result, image, locals, pixel_view, i,
                   plane_gen, pix, resolutionLevel, current_group, other>>

\* do_across_groups, lines 61 and 65: f has raised.  The wrapper has no
\* handler: the exception leaves it as it left f, and set_group(conn,
\* current_group) of line 62 is not reached.
WrapperRaise ==
    /\ wrapper_pc = "in_f"
    /\ pc = "raised"
    /\ wrapper_pc' = "raised"
    /\ UNCHANGED <<args, pc, err, result, image, locals, pixel_view, i,
                   plane_gen, pix, resolutionLevel, calls, warnings,
                   current_group, omeroGroup, other>>

\* get_image, lines 110-136: the argument checks.
Validate ==
    /\ wrapper_pc = "in_f"
    /\ pc = "call"
    /\ IF ArgumentError(args) # ""
       THEN Raise(ArgumentError(args))
       ELSE pc' = "lookup" /\ err' = err
    /\ UNCHANGED <<wrapper, args, result, image, locals, pixel_view, i, plane_gen, pix,
                   resolutionLevel, calls, warnings>>

\* A level the image has not taken for full resolution too.
FullResolution_OrPastLast(a) ==
    \/ a.pyramid_level.t = "NoneType"
    \/ a.pyramid_level.v = 0
    \/ a.pyramid_level.v >= NumLevels

\* Full resolution for pyramid_level None alone.
FullResolution_NoneOnly(a) == a.pyramid_level.t = "NoneType"

\* The strategy: full resolution for pyramid_level None or 0.
FullResolution(a) ==
    a.pyramid_level.t = "NoneType" \/ a.pyramid_level.v = 0

\* conn.getObject('Image', image_id), sent under the group of SERVICE_OPTS
GetObject(id, ctx) == IF Visible(id, ctx) THEN "ImageWrapper" ELSE "None"

\* The image never found missing.
ImageMissing_Never(img) == FALSE

\* if image is None
ImageMissing(img) == img = "None"

\* no_pixels not looked at.
WantsPixels_Always(a) == TRUE

\* if no_pixels is False
WantsPixels(a) == a.no_pixels = FALSE

\* get_image, lines 138-155 and 327: the lookup of the image, the early
\* returns and the choice of the strategy.
Lookup ==
    /\ pc = "lookup"
    /\ image' = GetObject(args.image_id.v, omeroGroup)
    /\ IF ImageMissing(image')
       THEN /\ calls' = Append(calls, CallUnder("getObject", <<args.image_id.v>>,
                                                omeroGroup))
            /\ warnings' = warnings + 1
            /\ result' = [image |-> "None", pixels |-> NoView]
            /\ pc' = "returned"
            /\ UNCHANGED orig_sizes
       ELSE /\ calls' = calls \o <<CallUnder("getObject", <<args.image_id.v>>,
                                              omeroGroup),
                                    Call("getSizes", <<>>)>>
            /\ orig_sizes' = ImageSizes
            /\ warnings' = warnings
            /\ IF WantsPixels(args)
               THEN /\ pc' = IF FullResolution(args) THEN "full_prepare"
                                                     ELSE "raw_open"
                    /\ result' = result
               ELSE /\ pc' = "returned"
                    /\ result' = [image |-> image', pixels |-> pixel_view]
    /\ UNCHANGED <<wrapper, args, err, start_coords, axis_lengths, reordered_sizes,
                   pixels, pixel_view, allocated, zct_list, whole_plane, i,
                   plane_gen, dtype, pix, resolutionLevel>>

\* start_coords and axis_lengths with their defaults, against `sizes`.
StartCoords(a) ==
    IF a.start_coords.t = "NoneType" THEN <<0, 0, 0, 0, 0>> ELSE a.start_coords.v

AxisLengths(a, sizes) ==
    IF a.axis_lengths.t = "NoneType"
    THEN DefaultLengths(sizes, StartCoords(a))
    ELSE a.axis_lengths.v

\* np.zeros refuses a negative dimension.
ZerosOk(shape) == \A k \in 1..Len(shape) : shape[k] >= 0

\* if any([x > 0 for x in overhangs]) & (pad is False): raise IndexError
OutOfBounds(overhangs, pad) == AnyOverhang(overhangs) /\ pad = FALSE

\* reordered_sizes == [size_t, size_z, size_y, size_x, size_c]
WholePlane(rs, sizes) == rs = ReorderedSizes(sizes)

\* The tile taken from the origin whatever start_coords is.
Tile_FromOrigin(sc, al) == <<0, 0, al[1], al[2]>>

\* The tile of the tiled path.
Tile(sc, al) == <<sc[1], sc[2], al[1], al[2]>>

\* A list of (z, c, t) triples as the flat argument of a logged call.
RECURSIVE Flat(_)
Flat(list) == IF list = <<>> THEN <<>> ELSE Head(list) \o Flat(Tail(list))

\* Lines 157-188 and 250-276: the defaults, the buffer, the bounds check and
\* the trimming; what is left for the two strategies is the fetch they set up.
Prepare(sizes, next, setup) ==
    LET sc == StartCoords(args)
        al == AxisLengths(args, sizes)
        rs == ReorderedSizes(al)
        oh == Overhangs(al, sc, sizes)
        ok == ZerosOk(rs) /\ ~OutOfBounds(oh, args.pad)
        tr == Trim(al, oh)
    IN /\ start_coords' = sc
       /\ reordered_sizes' = rs
       /\ allocated' = ZerosOk(rs)
       /\ pixels' = IF ZerosOk(rs) THEN Zeros(rs) ELSE pixels
       /\ axis_lengths' = IF ok THEN tr ELSE al
       /\ zct_list' = IF ok THEN ZctList(sc, tr) ELSE zct_list
       /\ whole_plane' = IF ok THEN WholePlane(rs, sizes) ELSE whole_plane
       /\ calls' = calls \o <<Call("getPrimaryPixels", <<>>)>>
                         \o (IF ok THEN setup ELSE <<>>)
       /\ IF ~ZerosOk(rs) THEN Raise("ValueError")
          ELSE IF OutOfBounds(oh, args.pad) THEN Raise("IndexError")
          ELSE pc' = next /\ err' = err

\* Lines 199-207: the generator the native accessor hands back; no plane is
\* read before the loop asks for one.
NativeSetup(sizes) ==
    LET sc == StartCoords(args)
        al == AxisLengths(args, sizes)
        tr == Trim(al, Overhangs(al, sc, sizes))
    IN IF WholePlane(ReorderedSizes(al), sizes)
       THEN <<Call("getPlanes", Flat(ZctList(sc, tr)))>>
       ELSE <<Call("getTiles", Tile(sc, tr) \o Flat(ZctList(sc, tr)))>>

\* get_image, lines 156-207: the full-resolution strategy up to the loop.
FullPrepare ==
    /\ pc = "full_prepare"
    /\ Prepare(orig_sizes, "full_fetch", NativeSetup(orig_sizes))
    /\ UNCHANGED <<wrapper, args, result, image, orig_sizes, pixel_view, i, plane_gen,
                   dtype, pix, resolutionLevel, warnings>>

\* get_image, lines 209-214: one turn of the loop over the generator: the
\* read of the next plane or tile, which the server may fail, and its write
\* into the buffer.
FullFetch ==
    /\ pc = "full_fetch"
    /\ i < Len(zct_list)
    /\ LET zct == zct_list[i + 1]
           tile == IF whole_plane THEN <<0, 0, ImageSizes[1], ImageSizes[2]>>
                                  ELSE Tile(start_coords, axis_lengths)
           plane == IF whole_plane THEN NativePlane(zct) ELSE NativeTile(zct, tile)
       IN /\ calls' = Append(calls, CallUnder(IF whole_plane THEN "readPlane"
                                                             ELSE "readTile",
                                              zct \o tile, omeroGroup))
          /\ \/ /\ Raise("RemoteError")
                /\ UNCHANGED <<pixels, i>>
             \/ /\ InStore(zct, tile, ImageSizes[1], ImageSizes[2])
                /\ IF WriteOk(pixels, axis_lengths, plane)
                   THEN /\ pixels' = WritePlane(pixels,
                                                zct[3] - start_coords[5],
                                                zct[1] - start_coords[3],
                                                zct[2] - start_coords[4],
                                                axis_lengths, plane)
                        /\ i' = i + 1
                        /\ UNCHANGED <<pc, err>>
                   ELSE /\ Raise("ValueError")
                        /\ UNCHANGED <<pixels, i>>
    /\ UNCHANGED <<wrapper, args, result, image, orig_sizes, start_coords, axis_lengths,
                   reordered_sizes, pixel_view, allocated, zct_list,
                   whole_plane, plane_gen, dtype, pix, resolutionLevel, warnings>>

\* The exception of the reordering block, "" for none.
ReorderError(dim_order) ==
    IF dim_order.t = "NoneType" THEN ""
    ELSE IF ~OrderVectorOk(dim_order.v) THEN "KeyError"
    ELSE IF ~MoveAxisOk(OrderVector(dim_order.v)) THEN "ValueError"
    ELSE ""

\* get_image, lines 216-228 and 327: the view of the filled buffer and the
\* return of the full-resolution strategy.
FullReturn ==
    /\ pc = "full_fetch"
    /\ i = Len(zct_list)
    /\ IF ReorderError(args.dim_order) # ""
       THEN Raise(ReorderError(args.dim_order)) /\ UNCHANGED <<pixel_view, result>>
       ELSE /\ pixel_view' = View(Reorder(pixels, args.dim_order, args.xyzct))
            /\ result' = [image |-> image, pixels |-> pixel_view']
            /\ pc' = "returned"
            /\ err' = err
    /\ UNCHANGED <<wrapper, args, image, locals, i, plane_gen, pix, resolutionLevel,
                   calls, warnings>>

\* The raw channel asked for its resolution levels before it is bound to
\* the pixel set.
RawOpen_ListFirst ==
    /\ pc = "raw_open"
    /\ pix' = "open"
    /\ calls' = calls \o <<Call("createRawPixelsStore", <<>>),
                           Call("getResolutionDescriptions", <<>>),
                           Call("setPixelsId", <<>>)>>
    /\ pc' = "raw_level"
    /\ UNCHANGED <<wrapper, args, err, result, image, locals, pixel_view, i, plane_gen,
                   resolutionLevel, warnings>>

\* Lines 242-246: the raw channel is opened, bound to the pixel set and
\* asked for its resolution levels.
RawOpen ==
    /\ pc = "raw_open"
    /\ pix' = "open"
    /\ calls' = calls \o <<Call("createRawPixelsStore", <<>>),
                           Call("setPixelsId", <<>>),
                           Call("getResolutionDescriptions", <<>>)>>
    /\ pc' = "raw_level"
    /\ UNCHANGED <<wrapper, args, err, result, image, locals, pixel_view, i, plane_gen,
                   resolutionLevel, warnings>>

\* The level passed on as it is, not inverted.
RawLevelIndex_AsGiven(p) == p

\* The index passed to pix.setResolutionLevel for pyramid_level p.
RawLevelIndex(p) == NumLevels - p - 1

\* res_levels[p] as Python indexes a list: a negative p counts from the end,
\* anything outside raises IndexError.
ListIndexOk(p, n) == p >= 0 - n /\ p < n

ListIndex(p, n) == IF p >= 0 THEN p + 1 ELSE n + p + 1

\* Lines 247-249: the resolution level is set and the extent of that level
\* replaces the native X and Y sizes.  The server may fail the call; what it
\* does with an index it does not have is not this code's to decide, so it
\* either raises or takes it.
RawSetLevel ==
    /\ pc = "raw_level"
    /\ LET p == args.pyramid_level.v
           r == RawLevelIndex(p)
       IN /\ calls' = Append(calls, Call("setResolutionLevel", <<r>>))
          /\ \/ /\ Raise(IF ValidRawLevel(r) THEN "RemoteError" ELSE "OutOfRange")
                /\ UNCHANGED <<resolutionLevel, orig_sizes>>
             \/ /\ resolutionLevel' = r
                /\ IF ListIndexOk(p, NumLevels)
                   THEN /\ orig_sizes' =
                               <<ResolutionDescriptions[ListIndex(p, NumLevels)][1],
                                 ResolutionDescriptions[ListIndex(p, NumLevels)][2],
                                 orig_sizes[3], orig_sizes[4], orig_sizes[5]>>
                        /\ pc' = "raw_prepare"
                        /\ err' = err
                   ELSE /\ Raise("IndexError")
                        /\ UNCHANGED orig_sizes
    /\ UNCHANGED <<wrapper, args, result, image, start_coords, axis_lengths,
                   reordered_sizes, pixels, pixel_view, allocated, zct_list,
                   whole_plane, i, plane_gen, dtype, pix, warnings>>

\* The raw strategy sets up no generator: it reads plane by plane.
RawSetup == <<Call("getPixelsType", <<>>)>>

\* get_image, lines 250-287: the explicit-level strategy up to the reads,
\* the look-up of the numpy type of the image's pixel type tag the last of
\* it.
RawPrepare ==
    /\ pc = "raw_prepare"
    /\ Prepare(orig_sizes, "raw_fetch", RawSetup)
    /\ dtype' = IF pc' = "raw_fetch"
                THEN PixelTypesGet(PixelsType(args.image_id.v))
                ELSE dtype
    /\ UNCHANGED <<wrapper, args, result, image, orig_sizes, pixel_view, i, plane_gen,
                   pix, resolutionLevel, warnings>>

\* The extent of the planes the raw channel serves at index r.
RawWidth(r) == ResolutionDescriptions[PublicLevel(r) + 1][1]
RawHeight(r) == ResolutionDescriptions[PublicLevel(r) + 1][2]

\* get_image, lines 288-305: one read from the raw channel, which the server
\* may fail, its bytes read as elements of dtype and reshaped to
\* (size_h, size_w) or to the tile's (h, w).
RawFetch ==
    /\ pc = "raw_fetch"
    /\ Len(plane_gen) < Len(zct_list)
    /\ LET zct == zct_list[Len(plane_gen) + 1]
           tile == Tile(start_coords, axis_lengths)
           r == resolutionLevel
       IN /\ calls' = Append(calls, IF whole_plane THEN Call("getPlane", zct)
                                                   ELSE Call("getTile", zct \o tile))
          /\ \/ /\ Raise("RemoteError")
                /\ UNCHANGED plane_gen
             \/ /\ ValidRawLevel(r)
                /\ IF whole_plane
                   THEN InStore(zct, <<0, 0, RawWidth(r), RawHeight(r)>>,
                                RawWidth(r), RawHeight(r))
                   ELSE InStore(zct, tile, RawWidth(r), RawHeight(r))
                /\ LET tag == PixelsType(args.image_id.v)
                       bytes == IF whole_plane THEN RawPlane(r, zct)
                                               ELSE RawTile(r, zct, tile)
                       buf == FromBuffer(bytes, tag, dtype)
                       h == IF whole_plane THEN orig_sizes[2] ELSE tile[4]
                       w == IF whole_plane THEN orig_sizes[1] ELSE tile[3]
                   IN IF FromBufferOk(bytes, tag, dtype) /\ ReshapeOk(buf, h, w)
                      THEN /\ plane_gen' = Append(plane_gen, Reshape(buf, h, w))
                           /\ UNCHANGED <<pc, err>>
                      ELSE /\ Raise("ValueError")
                           /\ UNCHANGED plane_gen
    /\ UNCHANGED <<wrapper, args, result, image, locals, pixel_view, i, pix,
                   resolutionLevel, warnings>>

\* Lines 307-312: the planes read are written into the buffer, in order; the
\* first one that does not fit its slot stops the loop.
RECURSIVE WriteAll(_, _, _, _, _)
WriteAll(buffer, planes, zcts, sc, al) ==
    IF planes = <<>> THEN [ok |-> TRUE, pixels |-> buffer]
    ELSE IF ~WriteOk(buffer, al, Head(planes))
         THEN [ok |-> FALSE, pixels |-> buffer]
         ELSE WriteAll(WritePlane(buffer,
                                  Head(zcts)[3] - sc[5],
                                  Head(zcts)[1] - sc[3],
                                  Head(zcts)[2] - sc[4],
                                  al, Head(planes)),
                       Tail(planes), Tail(zcts), sc, al)

\* get_image, lines 307-325: the buffer is filled and the view taken.
RawAssemble ==
    /\ pc = "raw_fetch"
    /\ Len(plane_gen) = Len(zct_list)
    /\ LET w == WriteAll(pixels, plane_gen, zct_list, start_coords, axis_lengths)
       IN /\ pixels' = w.pixels
          /\ IF ~w.ok THEN Raise("ValueError") /\ UNCHANGED pixel_view
             ELSE IF ReorderError(args.dim_order) # ""
             THEN Raise(ReorderError(args.dim_order)) /\ UNCHANGED pixel_view
             ELSE /\ pixel_view' = View(Reorder(w.pixels, args.dim_order,
                                                 args.xyzct))
                  /\ pc' = "raw_close"
                  /\ err' = err
    /\ UNCHANGED <<wrapper, args, result, image, orig_sizes, start_coords, axis_lengths,
                   reordered_sizes, allocated, zct_list, whole_plane, i,
                   plane_gen, dtype, pix, resolutionLevel, calls, warnings>>

\* get_image, lines 326-327: the channel is closed and the pair returned.
RawClose ==
    /\ pc = "raw_close"
    /\ pix' = "closed"
    /\ calls' = Append(calls, Call("close", <<>>))
    /\ result' = [image |-> image, pixels |-> pixel_view]
    /\ pc' = "returned"
    /\ UNCHANGED <<wrapper, args, err, image, locals, pixel_view, i, plane_gen,
                   resolutionLevel, warnings>>

Next ==
    \/ Wrapper
    \/ WrapperReturn
    \/ WrapperRaise
    \/ Validate
    \/ Lookup
    \/ FullPrepare
    \/ FullFetch
    \/ FullReturn
    \/ RawOpen
    \/ RawSetLevel
    \/ RawPrepare
    \/ RawFetch
    \/ RawAssemble
    \/ RawClose

Spec == Init /\ [][Next]_vars

(***************************************************************************)
(* Two calls on one connection.  The second is a call for the image alone  *)
(* (no_pixels=True); its steps interleave with those of the first, and     *)
(* both wrappers write the group of the one conn.SERVICE_OPTS.             *)
(***************************************************************************)
body == <<args, pc, err, result, image, locals, pixel_view, i, plane_gen,
          pix, resolutionLevel, calls, warnings, wrapper_pc, current_group>>

\* do_across_groups, lines 49-61, for the second call.
OtherWrapper ==
    /\ other.pc = "entry"
    /\ IF DoAcrossGroups(other.across_groups)
       THEN /\ other' = [other EXCEPT !.pc = "call",
                                      !.current_group = SessionGroup]
            /\ omeroGroup' = AllGroups
       ELSE /\ other' = [other EXCEPT !.pc = "call"]
            /\ omeroGroup' = omeroGroup
    /\ UNCHANGED body

\* get_image, lines 110-153, for the second call: its arguments pass the
\* checks, the image is looked up under the group SERVICE_OPTS hold by
\* then, and (image, None) or (None, None) is returned.
OtherLookup ==
    /\ other.pc = "call"
    /\ other' = [other EXCEPT !.pc = "returned",
                              !.image = GetObject(other.image_id, omeroGroup),
                              !.ctx = omeroGroup]
    /\ UNCHANGED <<body, omeroGroup>>

\* do_across_groups, lines 62-66, for the second call.
OtherWrapperReturn ==
    /\ other.pc = "returned"
    /\ other' = [other EXCEPT !.pc = "done"]
    /\ omeroGroup' = IF DoAcrossGroups(other.across_groups)
                     THEN SetGroup(other.current_group, omeroGroup)
                     ELSE omeroGroup
    /\ UNCHANGED body

\* The two calls: images of both groups, with and without across_groups, the
\* first call with and without pixels, at full resolution and at a level.
InitConcurrent ==
    /\ \E id \in KnownImages \cup OtherGroupImages, np \in BOOLEAN,
          lv \in {PyNoneInt, PyInt(1)}, ag \in FewAcrossGroupsArgs :
           args = CallRecord(PyInt(id), np, <<PyNone, PyNone>>,
                             <<FALSE, PyNone>>, FALSE, lv, ag)
    /\ \E id \in KnownImages \cup OtherGroupImages, ag \in FewAcrossGroupsArgs :
           other = OtherCall("entry", id, ag)
    /\ InitCall

NextConcurrent ==
    \/ Next
    \/ OtherWrapper
    \/ OtherLookup
    \/ OtherWrapperReturn

SpecConcurrent == InitConcurrent /\ [][NextConcurrent]_vars

(***************************************************************************)
(* The properties.                                                         *)
(***************************************************************************)
Terminal == pc \in {"returned", "raised"}

\* The calls that fetch pixel data: the native accessor's getPlanes and
\* getTiles with the reads of their generators, the raw channel's getPlane
\* and getTile.
FetchOps == {"getPlanes", "getTiles", "readPlane", "readTile", "getPlane", "getTile"}

NoFetch == \A k \in 1..Len(calls) : calls[k].op \notin FetchOps

\* The call passes the argument checks, for pixels of an image the server
\* has, at full resolution or at a level the image has.
PixelCall ==
    /\ ArgumentError(args) = ""
    /\ args.image_id.v \in KnownImages
    /\ args.no_pixels = FALSE
    /\ (FullResolution(args) \/ args.pyramid_level.v \in 1..(NumLevels - 1))

\* The extent at the active resolution of such a call.
Extent ==
    IF FullResolution(args) THEN ImageSizes
    ELSE <<ResolutionDescriptions[args.pyramid_level.v + 1][1],
           ResolutionDescriptions[args.pyramid_level.v + 1][2],
           ImageSizes[3], ImageSizes[4], ImageSizes[5]>>

\* The start and the lengths asked for, the defaults filled in.
AskedStart == StartCoords(args)
AskedLengths == AxisLengths(args, Extent)

\* The request overhangs the extent on axis k, by how much.
Overhang(k) == AskedStart[k] + AskedLengths[k] - Extent[k]

NoReordering == args.dim_order.t = "NoneType" /\ args.xyzct = FALSE

\* The pixel the store holds at the active resolution.
StoredPixel(x, y, z, c, t) ==
    PixelValue(IF FullResolution(args) THEN 0 ELSE args.pyramid_level.v,
               x, y, z, c, t)

\* Index ix of a TZYXC array lies in the part a request fills with data
\* when it overhangs axis k (XYZCT) by `over`.
InData(ix, k, over) ==
    LET pos == <<ix[4], ix[3], ix[2], ix[5], ix[1]>>
    IN pos[k] < AskedLengths[k] - over

\* C1 as claimed: a request with pad=True that starts inside the extent and
\* overhangs it by k > 0 on exactly one axis succeeds (the server failing
\* none of its reads), and returns an array of the shape asked for whose
\* last k slices on that axis are zero and whose other slices hold the
\* store's pixels from start_coords on, as the fetch of the trimmed region
\* does.
C1_PadKeepsShapeAndZeroFills ==
    \A k \in 1..5 :
        (/\ PixelCall /\ NoReordering /\ args.pad = TRUE
         /\ args.axis_lengths.t # "NoneType"
         /\ \A j \in 1..5 : AskedStart[j] < Extent[j]
         /\ Overhang(k) > 0
         /\ \A j \in 1..5 : j # k => Overhang(j) <= 0)
        => /\ pc = "raised" => err = "RemoteError"
           /\ pc = "returned" =>
                /\ result.pixels.t = "ndarray"
                /\ result.pixels.v.shape = <<AskedLengths[5], AskedLengths[3],
                                             AskedLengths[2], AskedLengths[1],
                                             AskedLengths[4]>>
                /\ \A ix \in DOMAIN result.pixels.v.data :
                       result.pixels.v.data[ix] =
                           IF InData(ix, k, Overhang(k))
                           THEN StoredPixel(AskedStart[1] + ix[4],
                                            AskedStart[2] + ix[3],
                                            AskedStart[3] + ix[2],
                                            AskedStart[4] + ix[5],
                                            AskedStart[5] + ix[1])
                           ELSE 0

\* The request lies within the extent on every axis.
InBounds ==
    \A k \in 1..5 :
        AskedStart[k] >= 0 /\ AskedLengths[k] >= 1 /\ Overhang(k) <= 0

\* C2: a request that lies within the extent, with no reordering asked,
\* returns an array of shape (axis_lengths[4], axis_lengths[2],
\* axis_lengths[1], axis_lengths[0], axis_lengths[3]) (Python indices), and
\* nothing but a failure of the server keeps it from returning.
C2_InBoundsShape ==
    (PixelCall /\ NoReordering /\ InBounds)
    => /\ pc = "raised" => err = "RemoteError"
       /\ pc = "returned" =>
            /\ result.pixels.t = "ndarray"
            /\ result.pixels.v.shape = <<AskedLengths[5], AskedLengths[3],
                                         AskedLengths[2], AskedLengths[1],
                                         AskedLengths[4]>>

\* C2's case: a call at a pyramid level returned a region given in full, of
\* different X and Y lengths.
C2_Witness ==
    /\ PixelCall /\ NoReordering /\ InBounds
    /\ args.axis_lengths.t = "tuple"
    /\ ~FullResolution(args)
    /\ AskedLengths[1] # AskedLengths[2]
    /\ pc = "returned"
    /\ result.pixels.v.shape[3] # result.pixels.v.shape[4]

\* C3: in both strategies a request that overhangs the extent of the active
\* resolution on some axis, with pad False, ends with IndexError and never
\* returns, and no plane or tile has been asked of the server by then (the
\* one other end is the server failing setResolutionLevel before the bounds
\* are looked at).
C3_OutOfBoundsBeforeFetch ==
    (/\ PixelCall /\ args.pad = FALSE
     /\ \A k \in 1..5 : AskedLengths[k] >= 0
     /\ \E k \in 1..5 : Overhang(k) > 0)
    => /\ NoFetch
       /\ pc # "returned"
       /\ pc = "raised" =>
            \/ err = "IndexError"
            \/ err = "RemoteError" /\ calls[Len(calls)].op = "setResolutionLevel"

\* C3's case: at a pyramid level, a region that fits the native extent but
\* not the level's was refused.
C3_Witness ==
    /\ PixelCall /\ args.pad = FALSE
    /\ ~FullResolution(args)
    /\ \E k \in 1..2 : Overhang(k) > 0
    /\ \A k \in 1..5 : AskedStart[k] + AskedLengths[k] <= ImageSizes[k]
    /\ pc = "raised"
    /\ err = "IndexError"
    /\ pix = "open"

\* C4 as claimed: a call that opened a raw pixel channel has closed it when
\* it ends, however it ends.
C4_ChannelClosedOnExit == Terminal => pix # "open"

\* The call passes the argument checks, for pixels of an image the server has.
CheckedPixelCall ==
    /\ ArgumentError(args) = ""
    /\ args.image_id.v \in KnownImages
    /\ args.no_pixels = FALSE

\* The call has chosen its resolution: it is past setResolutionLevel, or
\* reading at full resolution.
LevelChosen ==
    pc \in {"full_fetch", "raw_prepare", "raw_fetch", "raw_close", "returned"}

\* The indices the raw channel was asked to set, in order.
LevelsSet ==
    SelectSeq(calls, LAMBDA c : c.op = "setResolutionLevel")

\* C5 as claimed: with n levels, pyramid_level p in 0..n-1 selects the raw
\* channel's index n - p - 1, p = 0 included.
C5_LevelIndexInverted ==
    (/\ CheckedPixelCall
     /\ args.pyramid_level.t = "int"
     /\ args.pyramid_level.v \in 0..(NumLevels - 1)
     /\ LevelChosen)
    => resolutionLevel = NumLevels - args.pyramid_level.v - 1

\* C5 as amended: for p in 1..n-1 the one index set on the raw channel is
\* n - p - 1, the index that holds public level p; for p = 0 no raw channel
\* is opened and no index is set.
C5_LevelIndexInvertedAboveZero ==
    (CheckedPixelCall /\ args.pyramid_level.t = "int")
    => /\ (args.pyramid_level.v \in 1..(NumLevels - 1) /\ LevelChosen)
            => /\ resolutionLevel = NumLevels - args.pyramid_level.v - 1
               /\ PublicLevel(resolutionLevel) = args.pyramid_level.v
               /\ Len(LevelsSet) = 1
               /\ LevelsSet[1].a = <<NumLevels - args.pyramid_level.v - 1>>
       /\ args.pyramid_level.v = 0
            => /\ pix = "absent"
               /\ resolutionLevel = 0 - 1
               /\ LevelsSet = <<>>

\* C5's case: with 4 levels, a call for level 3 returned after setting the
\* raw channel to index 0 and reading from it.
C5_Witness ==
    /\ CheckedPixelCall
    /\ NumLevels = 4
    /\ args.pyramid_level.t = "int"
    /\ args.pyramid_level.v = 3
    /\ pc = "returned"
    /\ resolutionLevel = 0
    /\ result.pixels.t = "ndarray"
    /\ \E k \in 1..Len(calls) : calls[k].op \in {"getPlane", "getTile"}

\* C6: with pyramid_level >= n the call fails with an out-of-range error (the
\* server's, or the IndexError of res_levels[pyramid_level]) and asks the
\* server for no plane and no tile.
C6_LevelOutOfRange ==
    (/\ CheckedPixelCall
     /\ args.pyramid_level.t = "int"
     /\ args.pyramid_level.v >= NumLevels)
    => /\ NoFetch
       /\ pc \in {"call", "lookup", "raw_open", "raw_level", "raised"}
       /\ pc = "raised" => err \in {"OutOfRange", "IndexError"}

\* C6's case: a call for a level past the last one has failed.
C6_Witness ==
    /\ CheckedPixelCall
    /\ args.pyramid_level.t = "int"
    /\ args.pyramid_level.v >= NumLevels
    /\ pc = "raised"
    /\ err \in {"OutOfRange", "IndexError"}
    /\ \E k \in 1..Len(calls) : calls[k].op = "setResolutionLevel"

\* What a call with no_pixels=True is to do: return (image, None), open no
\* raw channel, fetch nothing.
NoPixelsOutcome ==
    /\ pc # "raised"
    /\ pix = "absent"
    /\ NoFetch
    /\ pc = "returned" => result = [image |-> "ImageWrapper", pixels |-> NoView]

\* C7 as claimed: with no_pixels=True on an image the server has, the call
\* returns (image, None) whatever the other parameters are.
C7_NoPixelsAlwaysReturns ==
    (args.no_pixels = TRUE /\ args.image_id.v \in KnownImages)
    => NoPixelsOutcome

\* C7 as amended: it does so whatever the other parameters are, among those
\* that pass the argument checks.
C7_NoPixelsReturnsWhenChecked ==
    (/\ args.no_pixels = TRUE /\ args.image_id.v \in KnownImages
     /\ ArgumentError(args) = "")
    => NoPixelsOutcome

\* C7's case: a call with no_pixels=True has returned, though its region
\* overhangs the image, pad is False and its pyramid level does not exist.
C7_Witness ==
    /\ args.no_pixels = TRUE
    /\ args.image_id.v \in KnownImages
    /\ args.pad = FALSE
    /\ ArgumentError(args) = ""
    /\ args.start_coords.t = "tuple"
    /\ args.axis_lengths.t = "tuple"
    /\ \E k \in 1..5 :
           args.start_coords.v[k] + args.axis_lengths.v[k] > ImageSizes[k]
    /\ args.pyramid_level.t = "int"
    /\ args.pyramid_level.v >= NumLevels
    /\ args.dim_order.t = "str"
    /\ pc = "returned"
    /\ result = [image |-> "ImageWrapper", pixels |-> NoView]

\* The calls the wrapper of do_across_groups makes to the server.
WrapperOps == {"getGroupFromContext", "getExperimenterGroup", "groupSummary"}

\* The group context the wrapper establishes for the call.
Established ==
    IF DoAcrossGroups(args.across_groups) THEN AllGroups ELSE SessionGroup

\* The server resolves the image id under that context.
Resolved == Visible(args.image_id.v, Established)

\* C8: a call for an image id the server does not resolve raises nothing: it
\* returns (None, None) after one warning, having read no extent, opened no
\* raw channel and fetched nothing.
C8_MissingImage ==
    (ArgumentError(args) = "" /\ ~Resolved)
    => /\ pc \in {"call", "lookup", "returned"}
       /\ err = ""
       /\ pix = "absent"
       /\ NoFetch
       /\ \A k \in 1..Len(calls) : calls[k].op \in {"getObject"} \cup WrapperOps
       /\ pc = "returned" =>
            /\ result = [image |-> "None", pixels |-> NoView]
            /\ warnings = 1

\* C8's case: a call for pixels at a pyramid level, of an image the server
\* has not, has returned.
C8_Witness ==
    /\ ~Resolved
    /\ args.no_pixels = FALSE
    /\ args.pyramid_level.t = "int"
    /\ args.pyramid_level.v = 1
    /\ pc = "returned"
    /\ image = "None"
    /\ warnings = 1

\* The place of canonical axis k (of T,Z,Y,X,C) in the lower-cased dim_order.
PlaceOf(k) ==
    CHOOSE j \in 1..Len(args.dim_order.v) :
        Lower(args.dim_order.v[j]) = Canonical[k]

\* C9 as claimed: whenever dim_order passes the check of the arguments, in
\* any letter case, the call returns a view whose i-th axis is the canonical
\* axis that the i-th letter of the lower-cased dim_order names, with the
\* same elements.
C9_DimOrderView ==
    (PixelCall /\ InBounds /\ args.dim_order.t = "str")
    => /\ pc = "raised" => err = "RemoteError"
       /\ pc = "returned" =>
            /\ result.pixels.t = "ndarray"
            /\ \A k \in 1..5 :
                   result.pixels.v.shape[PlaceOf(k)] = pixels.shape[k]
            /\ \A ix \in DOMAIN pixels.data :
                   \A jx \in DOMAIN result.pixels.v.data :
                       (\A k \in 1..5 : jx[PlaceOf(k)] = ix[k])
                           => result.pixels.v.data[jx] = pixels.data[ix]

\* C10 as claimed: a pyramid_level that is given and is no non-negative
\* integer is refused by the argument checks, so the call goes no further:
\* no strategy is chosen, no raw channel opened, no level set.
C10_NegativeLevelRejected ==
    (/\ args.pyramid_level.t # "NoneType"
     /\ ~(args.pyramid_level.t = "int" /\ args.pyramid_level.v >= 0))
    => /\ pc \in {"call", "raised"}
       /\ pc = "raised" => err \in {"TypeError", "ValueError"}
       /\ pix = "absent"
       /\ resolutionLevel = 0 - 1

\* x is given as a list or tuple whose length is not 5.
WrongLength(x) == x.t \in {"list", "tuple"} /\ Len(x.v) # 5

\* x is given and is neither a list nor a tuple.
WrongType(x) == x.t \notin {"NoneType", "list", "tuple"}

\* The image has not been looked up.
NoLookup == image = "unbound" /\ \A k \in 1..Len(calls) : calls[k].op # "getObject"

\* C11 as claimed: whenever start_coords or axis_lengths is given as a list
\* or tuple whose length is not 5, the call ends with ValueError whatever
\* the other parameters are (no_pixels included), and the image is never
\* looked up.
C11_WrongLengthValueError ==
    (WrongLength(args.start_coords) \/ WrongLength(args.axis_lengths))
    => /\ pc \in {"call", "raised"}
       /\ NoLookup
       /\ pc = "raised" => err = "ValueError"

\* C11 as amended: it ends with ValueError unless start_coords is given as
\* something that is no list or tuple, which the checks meet first and
\* answer with TypeError; either way the image is never looked up.
C11_WrongLengthRefused ==
    (WrongLength(args.start_coords) \/ WrongLength(args.axis_lengths))
    => /\ pc \in {"call", "raised"}
       /\ NoLookup
       /\ pc = "raised" =>
            err = IF WrongType(args.start_coords) THEN "TypeError"
                                                  ELSE "ValueError"

\* C11's case: a call with no_pixels=True, a good start_coords, an
\* axis_lengths of six and an image_id that is no int was refused for the
\* length.
C11_Witness ==
    /\ args.no_pixels = TRUE
    /\ args.start_coords.t = "tuple" /\ Len(args.start_coords.v) = 5
    /\ WrongLength(args.axis_lengths)
    /\ args.image_id.t # "int"
    /\ pc = "raised"
    /\ err = "ValueError"
    /\ NoLookup

\* The argument checks that come before those of dim_order pass.
EarlierChecksPass == ArgumentError([args EXCEPT !.dim_order = PyNone]) = ""

\* The argument checks have refused the call with ValueError.
RefusedWithValueError == pc = "raised" /\ err = "ValueError" /\ NoLookup

\* Lower-cased, the characters of s are the letters x, y, z, c, t: every
\* character is one of them and each of them is a character of s.
CoversLetters(s) ==
    /\ \A k \in 1..Len(s) : Lower(s[k]) \in {"x", "y", "z", "c", "t"}
    /\ \A l \in {"x", "y", "z", "c", "t"} : \E k \in 1..Len(s) : Lower(s[k]) = l

\* s holds each of the five letters exactly once, in any order and case.
IsPermutation(s) == Len(s) = 5 /\ CoversLetters(s)

Prepared == PixelCall /\ reordered_sizes # <<>>

\* C13: start_coords left out is (0,0,0,0,0); axis_lengths left out is, on
\* every axis, the extent less start_coords, the extent being the selected
\* level's (width, height) on X and Y (the native sizeX and sizeY when
\* pyramid_level is left out or 0) and the image's Z, C and T sizes; so a
\* call with pad=False that leaves axis_lengths out never ends with the
\* out-of-bounds IndexError.
C13_Defaults ==
    /\ (Prepared /\ args.start_coords.t = "NoneType")
           => start_coords = <<0, 0, 0, 0, 0>>
    /\ (Prepared /\ args.axis_lengths.t = "NoneType")
           => reordered_sizes = <<Extent[5] - start_coords[5],
                                  Extent[3] - start_coords[3],
                                  Extent[2] - start_coords[2],
                                  Extent[1] - start_coords[1],
                                  Extent[4] - start_coords[4]>>
    /\ (PixelCall /\ args.axis_lengths.t = "NoneType" /\ args.pad = FALSE)
           => err # "IndexError"

\* C13's case: at a level smaller than the image, a call that gave a
\* start_coords off the origin and no axis_lengths returned the rest of the
\* level.
C13_Witness ==
    /\ PixelCall /\ ~FullResolution(args)
    /\ Extent[2] < ImageSizes[2]
    /\ args.start_coords.t = "tuple"
    /\ args.start_coords.v[1] > 0
    /\ args.axis_lengths.t = "NoneType"
    /\ args.pad = FALSE
    /\ pc = "returned"
    /\ result.pixels.t = "ndarray"
    /\ result.pixels.v.shape[4] = Extent[1] - args.start_coords.v[1]
    /\ result.pixels.v.shape[3] = Extent[2]
    /\ NoReordering

\* The whole plane the data source returns for (z, c, t) at the resolution
\* of the call: an element of getPlanes at full resolution, the reshaped
\* buffer of pix.getPlane at a level.
DirectPlane(zct) ==
    IF FullResolution(args)
    THEN NativePlane(zct)
    ELSE Reshape(RawPlane(NumLevels - args.pyramid_level.v - 1, zct),
                 Extent[2], Extent[1])

\* The call leaves start_coords and axis_lengths out.
FullExtent == args.start_coords.t = "NoneType" /\ args.axis_lengths.t = "NoneType"

\* C14: a call for the full extent, start_coords and axis_lengths left out
\* and no reordering asked, that the server does not fail, returns an array
\* of the extent's shape in which, for every (z, c, t) of the image, the
\* slice [t, z, :, :, c] is the whole plane the data source returns for
\* (z, c, t).
C14_FullExtentRoundTrip ==
    (PixelCall /\ FullExtent /\ NoReordering)
    => /\ pc = "raised" => err = "RemoteError"
       /\ pc = "returned" =>
            /\ result.pixels.t = "ndarray"
            /\ result.pixels.v.shape =
                   <<Extent[5], Extent[3], Extent[2], Extent[1], Extent[4]>>
            /\ \A z \in 0..(Extent[3] - 1), c \in 0..(Extent[4] - 1),
                  t \in 0..(Extent[5] - 1) :
                   /\ DirectPlane(<<z, c, t>>).shape = <<Extent[2], Extent[1]>>
                   /\ \A y \in 0..(Extent[2] - 1), x \in 0..(Extent[1] - 1) :
                          result.pixels.v.data[<<t, z, y, x, c>>] =
                              DirectPlane(<<z, c, t>>).data[<<y, x>>]

\* C14's case: the full extent of a level that is wider than high was
\* returned, one whole plane read for each (z, c, t) of the image.
C14_Witness ==
    /\ PixelCall /\ FullExtent /\ NoReordering
    /\ ~FullResolution(args)
    /\ Extent[1] > Extent[2]
    /\ pc = "returned"
    /\ result.pixels.t = "ndarray"
    /\ Len(plane_gen) = ImageSizes[3] * ImageSizes[4] * ImageSizes[5]
    /\ \A k \in 1..Len(calls) : calls[k].op # "getTile"

\* The resolution level the call reads at, 0 being full resolution.
LevelRead == IF FullResolution(args) THEN 0 ELSE PublicLevel(resolutionLevel)

\* Index ix of the canonical buffer lies in the in-bounds part of the
\* region: below the trimmed axis_lengths on every axis.
InRegion(ix) ==
    /\ ix[1] < axis_lengths[5] /\ ix[2] < axis_lengths[3]
    /\ ix[3] < axis_lengths[2] /\ ix[4] < axis_lengths[1]
    /\ ix[5] < axis_lengths[4]

\* Every in-bounds plane has been written: the buffer holds the store's
\* pixels from start_coords on throughout the in-bounds part of the region,
\* and zeros elsewhere.
Populated ==
    \A ix \in DOMAIN pixels.data :
        pixels.data[ix] =
            IF InRegion(ix)
            THEN PixelValue(LevelRead,
                            start_coords[1] + ix[4], start_coords[2] + ix[3],
                            start_coords[3] + ix[2], start_coords[4] + ix[5],
                            start_coords[5] + ix[1])
            ELSE 0

C16_InvalidArgumentBeforeAccess ==
    ArgumentError(args) # ""
    => /\ pc \in {"call", "raised"}
       /\ pc = "raised" => err = ArgumentError(args)
       /\ calls = <<>>

\* The group context the wrapper of the second call establishes for it.
OtherEstablished ==
    IF DoAcrossGroups(other.across_groups) THEN AllGroups ELSE SessionGroup

\* C17 as claimed: two get_image calls that run concurrently on one
\* connection share no mutable state.  Under every interleaving each call's
\* image lookup and fetches run under the group context that call
\* established, and each call finds the image it finds when run alone.
C17_ConcurrentCallsIndependent ==
    /\ \A k \in 1..Len(calls) :
           calls[k].ctx # NoContext => calls[k].ctx = Established
    /\ image # "unbound" => image = GetObject(args.image_id.v, Established)
    /\ pc = "returned" =>
           result.image = GetObject(args.image_id.v, Established)
    /\ other.ctx # NoContext =>
           /\ other.ctx = OtherEstablished
           /\ other.image = GetObject(other.image_id, OtherEstablished)

\* The canonical axis (of T,Z,Y,X,C) that axis d of the view by dim_order is.
AxisAt(d) == CHOOSE k \in 1..5 : PlaceOf(k) = d

\* The returned array is the view of the canonical buffer whose axes are
\* those the letters of dim_order name, in their order.
ViewByDimOrder ==
    /\ \A d \in 1..5 : result.pixels.v.shape[d] = pixels.shape[AxisAt(d)]
    /\ \A ix \in DOMAIN pixels.data :
           result.pixels.v.data[[d \in 1..5 |-> ix[AxisAt(d)]]] = pixels.data[ix]

\* The returned array is the view of the canonical buffer with its axes in
\* the order (X, Y, Z, C, T).
ViewXyzct ==
    /\ result.pixels.v.shape = <<pixels.shape[4], pixels.shape[3],
                                 pixels.shape[2], pixels.shape[5],
                                 pixels.shape[1]>>
    /\ \A ix \in DOMAIN pixels.data :
           result.pixels.v.data[<<ix[4], ix[3], ix[2], ix[5], ix[1]>>] =
               pixels.data[ix]

\* C18: in both strategies the order of the returned array is decided by
\* one of three cases: a dim_order that is given is used, whatever xyzct
\* is; else xyzct True gives the order (X, Y, Z, C, T); else the canonical
\* (T, Z, Y, X, C) buffer is returned as it is.
C18_OrderingCases ==
    (PixelCall /\ pc = "returned")
    => /\ result.pixels.t = "ndarray"
       /\ IF args.dim_order.t # "NoneType" THEN ViewByDimOrder
          ELSE IF args.xyzct = TRUE THEN ViewXyzct
          ELSE result.pixels.v = pixels

\* C18's case: in the explicit-level strategy, a call with xyzct=True and a
\* dim_order that names the canonical order returned the buffer in the
\* canonical order, which is not its (X, Y, Z, C, T) order.
C18_Witness ==
    /\ PixelCall /\ ~FullResolution(args)
    /\ args.xyzct = TRUE
    /\ args.dim_order.t = "str"
    /\ args.dim_order.v = Canonical
    /\ pc = "returned"
    /\ result.pixels.v = pixels
    /\ pixels.shape # <<pixels.shape[4], pixels.shape[3], pixels.shape[2],
                        pixels.shape[5], pixels.shape[1]>>
    /\ pix = "closed"

\* C19 as claimed: when the caller passes across_groups=False, by keyword or
\* as a positional argument, the wrapper never points the connection at all
\* groups ('-1') and never asks the server for the group to come back to.
C19_AcrossGroupsFalseNeverSwitches ==
    (args.across_groups.how \in {"keyword", "positional"}
        /\ args.across_groups.v = FALSE)
    => /\ omeroGroup # AllGroups
       /\ \A k \in 1..Len(calls) : calls[k].op # "getGroupFromContext"

\* The calls made on the raw pixel channel, and the reads of the native
\* accessor.
RawOps ==
    {"createRawPixelsStore", "setPixelsId", "getResolutionDescriptions",
     "setResolutionLevel", "getPlane", "getTile", "close"}

NativeOps == {"getPlanes", "getTiles", "readPlane", "readTile"}

\* How many calls of the operations `ops` were made.
Count(ops) == Cardinality({k \in 1..Len(calls) : calls[k].op \in ops})

\* C20: the strategy of a call never changes.  With pyramid_level left out
\* or 0 the call never opens a raw pixel channel, works against the extent
\* (sizeX, sizeY) and, when it returns, has read each plane or tile of its
\* list from the generator of getPlanes or getTiles; with a positive
\* pyramid_level it never calls getPlanes or getTiles and, when it returns,
\* has read each of them with getPlane or getTile of the raw channel.
C20_StrategyFixed ==
    CheckedPixelCall
    => /\ (args.pyramid_level.t = "NoneType" \/ args.pyramid_level.v = 0)
            => /\ pix = "absent"
               /\ Count(RawOps) = 0
               /\ orig_sizes \in {<<>>, ImageSizes}
               /\ Count({"getPlanes", "getTiles"}) <= 1
               /\ pc = "returned" =>
                      /\ Count({"getPlanes", "getTiles"}) = 1
                      /\ Count({"readPlane", "readTile"}) = Len(zct_list)
       /\ (args.pyramid_level.t = "int" /\ args.pyramid_level.v >= 1)
            => /\ Count(NativeOps) = 0
               /\ pc \notin {"full_prepare", "full_fetch"}
               /\ pc = "returned" =>
                      /\ pix = "closed"
                      /\ Count({"getPlane", "getTile"}) = Len(zct_list)

\* C20's case: a call at a positive level returned a region it read tile
\* by tile from the raw channel.
C20_Witness ==
    /\ CheckedPixelCall
    /\ args.pyramid_level.t = "int"
    /\ args.pyramid_level.v >= 1
    /\ pc = "returned"
    /\ Count({"getTile"}) > 1
    /\ Count({"getTile"}) = Len(zct_list)
    /\ Count(NativeOps) = 0

\* The call is past the bounds check and the trimming: its reads are set up.
Fetching ==
    PixelCall /\ pc \in {"full_fetch", "raw_fetch", "raw_close", "returned"}

\* The effective fetch region, start_coords with the trimmed lengths, covers
\* the whole X/Y extent at the active resolution.
CoversPlane ==
    /\ start_coords[1] = 0 /\ axis_lengths[1] = Extent[1]
    /\ start_coords[2] = 0 /\ axis_lengths[2] = Extent[2]

\* The whole-plane requests and the tile requests of the two strategies.
PlaneReadOps == {"getPlanes", "readPlane", "getPlane"}
TileReadOps == {"getTiles", "readTile", "getTile"}

\* C21 as claimed: in both strategies the call reads whole planes if and
\* only if its effective fetch region covers the whole X/Y extent at the
\* active resolution, whatever its Z, C and T ranges are, and reads tiles
\* otherwise.
C21_WholePlaneIffCoversXY ==
    Fetching
    => /\ whole_plane <=> CoversPlane
       /\ CoversPlane => Count(TileReadOps) = 0
       /\ ~CoversPlane => Count(PlaneReadOps) = 0

\* The reads of single planes and tiles, of both strategies, made so far.
ReadOps == {"readPlane", "readTile", "getPlane", "getTile"}

Reads == SelectSeq(calls, LAMBDA c : c.op \in ReadOps)

\* The (z, c, t) triple a read asks for.
TripleOf(c) == <<c.a[1], c.a[2], c.a[3]>>

\* The effective length on axis k: the length asked for less its overhang.
Effective(k) == AskedLengths[k] - Max(0, Overhang(k))

\* The first value and the end of the half-open effective range of axis k.
First(k) == AskedStart[k]
End(k) == AskedStart[k] + Effective(k)

\* The triple lies in the half-open effective ranges of Z, C and T.
InRanges(zct) ==
    \A j \in 1..3 : zct[j] >= First(j + 2) /\ zct[j] < End(j + 2)

\* Triple b is the one after triple a in the enumeration with Z outermost,
\* C in the middle and T innermost: a step in T, or T run out and a step in
\* C, or C run out too and a step in Z.
Follows(a, b) ==
    \/ b = <<a[1], a[2], a[3] + 1>>
    \/ a[3] + 1 = End(5) /\ b = <<a[1], a[2] + 1, First(5)>>
    \/ a[3] + 1 = End(5) /\ a[2] + 1 = End(4) /\ b = <<a[1] + 1, First(4), First(5)>>

\* The triples `list`, in its order, are that enumeration from its first
\* triple on.
Enumerates(list) ==
    /\ \A k \in 1..Len(list) : InRanges(list[k])
    /\ Len(list) > 0 => list[1] = <<First(3), First(4), First(5)>>
    /\ \A k \in 1..(Len(list) - 1) : Follows(list[k], list[k + 1])

\* How many triples the effective ranges hold.
NumTriples == Max(0, Effective(3)) * Max(0, Effective(4)) * Max(0, Effective(5))

\* The triples listed in the one call of getPlanes or getTiles (after the
\* four numbers of the tile in getTiles).
Listed(c) ==
    LET off == IF c.op = "getTiles" THEN 4 ELSE 0
    IN [n \in 1..((Len(c.a) - off) \div 3) |->
           <<c.a[off + 3 * n - 2], c.a[off + 3 * n - 1], c.a[off + 3 * n]>>]

WindowOf(c) ==
    IF c.op = "getTiles" THEN <<c.a[1], c.a[2], c.a[3], c.a[4]>>
                         ELSE <<c.a[4], c.a[5], c.a[6], c.a[7]>>

\* C23: on the tiled path every tile request of a call carries the same
\* window (x, y, width, height) = (start_coords[0], start_coords[1],
\* effective X length, effective Y length); only z, c and t vary between the
\* requests.
C23_OneTileWindow ==
    PixelCall
    => \A k \in 1..Len(calls) :
           calls[k].op \in TileReadOps
           => WindowOf(calls[k]) = <<AskedStart[1], AskedStart[2],
                                     Effective(1), Effective(2)>>

\* C23's case: a padded call that starts off the origin in X and overhangs
\* the image in Y returned after more than one tile read, of different
\* triples.
C23_Witness ==
    /\ PixelCall /\ args.pad = TRUE
    /\ pc = "returned"
    /\ AskedStart[1] > 0
    /\ Overhang(2) > 0
    /\ Len(Reads) > 1
    /\ \A k \in 1..Len(Reads) : Reads[k].op \in {"readTile", "getTile"}
    /\ TripleOf(Reads[1]) # TripleOf(Reads[2])

\* How many of the planes read have been written into the buffer.
Written ==
    IF FullResolution(args) THEN i
    ELSE IF pc \in {"raw_close", "returned"} THEN Len(plane_gen) ELSE 0

\* The read of a plane or tile was answered and what came back did not fit
\* the slot it was assigned to.
MisfitRaised ==
    /\ pc = "raised" /\ err = "ValueError"
    /\ Len(Reads) > 0

\* C24 as claimed: the plane fetched for (z, c, t) is written to the buffer
\* at [t - start_coords[4], z - start_coords[2], 0:effective_y,
\* 0:effective_x, c - start_coords[3]], the start offset being applied to
\* the source and never again in the buffer, and every fetched plane has
\* the shape (effective_y, effective_x) of the slot it is written to.
C24_PlaneWrittenAtOffsetZero ==
    (PixelCall /\ \A k \in 1..5 : Effective(k) >= 0)
    => /\ \A k \in 1..Written :
              \A y \in 0..(Effective(2) - 1), x \in 0..(Effective(1) - 1) :
                  pixels.data[<<TripleOf(Reads[k])[3] - First(5),
                                TripleOf(Reads[k])[1] - First(3),
                                y, x,
                                TripleOf(Reads[k])[2] - First(4)>>] =
                      StoredPixel(First(1) + x, First(2) + y,
                                  TripleOf(Reads[k])[1], TripleOf(Reads[k])[2],
                                  TripleOf(Reads[k])[3])
       /\ \A k \in 1..Len(plane_gen) :
              plane_gen[k].shape = <<Effective(2), Effective(1)>>
       /\ ~MisfitRaised

\* The window lies entirely inside the planes of the active resolution.
WindowInExtent(w) ==
    /\ w[1] >= 0 /\ w[2] >= 0 /\ w[3] >= 0 /\ w[4] >= 0
    /\ w[1] + w[3] <= Extent[1]
    /\ w[2] + w[4] <= Extent[2]

\* The triple names a plane the image has.
TripleInExtent(zct) ==
    \A j \in 1..3 : zct[j] >= 0 /\ zct[j] < Extent[j + 2]

\* The request has non-negative start_coords and positive axis_lengths.
PlainRequest == \A k \in 1..5 : AskedStart[k] >= 0 /\ AskedLengths[k] > 0

\* C25 as claimed: with pad=True only in-bounds data is fetched: every
\* (z, c, t) triple and every tile window requested from the data source
\* lies entirely inside the extent of the active resolution, for every
\* request with non-negative start_coords and positive axis_lengths, those
\* that start beyond the extent included.
C25_PadFetchesInBoundsOnly ==
    (PixelCall /\ args.pad = TRUE /\ PlainRequest)
    => \A k \in 1..Len(calls) :
           /\ calls[k].op \in ReadOps => TripleInExtent(TripleOf(calls[k]))
           /\ calls[k].op \in TileReadOps => WindowInExtent(WindowOf(calls[k]))

\* The call passes the argument checks, for pixels at a level below full
\* resolution of an image the server resolves for it.
LevelCall ==
    /\ ArgumentError(args) = ""
    /\ Resolved
    /\ args.no_pixels = FALSE
    /\ args.pyramid_level.t = "int"
    /\ args.pyramid_level.v \in 1..(NumLevels - 1)

\* The pixel type tags the explicit-level strategy has a numeric type for.
SupportedTags ==
    {"int8", "uint8", "int16", "uint16", "int32", "uint32", "float", "double"}

\* The numeric type the raw bytes of the call are read as, once dtype is
\* bound.
ReadAs == FromBufferType(dtype)

\* C26 as claimed: in the explicit-level strategy the raw bytes are read
\* with the numeric type mapped from the pixel type tag the server declares
\* (int8, uint8, int16, uint16, int32, uint32, float, double), and a tag
\* outside this set ends the call with an error: no bytes are read as a
\* default element type and nothing is returned.
C26_UnknownTagFatal ==
    (LevelCall /\ dtype # "unbound")
    => IF PixelsType(args.image_id.v) \in SupportedTags
       THEN /\ dtype = PIXEL_TYPES[PixelsType(args.image_id.v)]
            /\ ReadAs = dtype
            /\ ItemSize(ReadAs) = TagSize(PixelsType(args.image_id.v))
       ELSE /\ pc = "raised"
            /\ plane_gen = <<>>

\* The buffer slot [t, z, :, :, c] the plane of a triple is written to.
SlotOf(zct) == <<zct[3] - First(5), zct[1] - First(3), zct[2] - First(4)>>

\* C27: within one call no (z, c, t) triple is fetched twice and the planes
\* of distinct triples go to distinct buffer slots; a call that returns has
\* fetched every triple of the effective ranges, each once; and a fetch the
\* server fails ends the call with that failure, the failed fetch being the
\* last call made: it is not issued again and nothing is fetched after it.
C27_EachTripleFetchedOnce ==
    PixelCall
    => /\ \A j, k \in 1..Len(Reads) :
              j # k => /\ TripleOf(Reads[j]) # TripleOf(Reads[k])
                       /\ SlotOf(TripleOf(Reads[j])) # SlotOf(TripleOf(Reads[k]))
       /\ pc = "returned" =>
              /\ Len(Reads) = NumTriples
              /\ \A k \in 1..Len(Reads) : InRanges(TripleOf(Reads[k]))
       /\ (err = "RemoteError" /\ Len(Reads) > 0) =>
              /\ pc = "raised"
              /\ result = NoResult
              /\ calls[Len(calls)] = Reads[Len(Reads)]

\* C27's case: a call at full resolution returned a region of four planes
\* after exactly four tile reads.
C27_Witness ==
    /\ PixelCall /\ FullResolution(args)
    /\ pc = "returned"
    /\ NumTriples = 4
    /\ Len(Reads) = 4
    /\ \A k \in 1..4 : Reads[k].op = "readTile"
    /\ Cardinality({TripleOf(Reads[k]) : k \in 1..4}) = 4

\* The calls made on the raw pixel channel, in order.
RawCalls == SelectSeq(calls, LAMBDA c : c.op \in RawOps)

\* The operation the k-th call on the raw channel may be: the channel is
\* created, bound to the pixel set, asked for its resolutions and set to a
\* level, in that order; what follows are reads, and a close at the very end.
RawOpAllowed(k, n) ==
    CASE k = 1 -> {"createRawPixelsStore"}
      [] k = 2 -> {"setPixelsId"}
      [] k = 3 -> {"getResolutionDescriptions"}
      [] k = 4 -> {"setResolutionLevel"}
      [] k > 4 /\ k < n -> {"getPlane", "getTile"}
      [] OTHER -> {"getPlane", "getTile", "close"}

\* C28: a call at an explicit level opens one raw channel and uses it in
\* the order: bind to the pixel set, list the resolutions, set the
\* resolution level once, then the plane or tile reads, then the close,
\* which a call that returns has made.  No read is issued before the level
\* is set and no operation is issued on the channel after its close.
C28_RawChannelOrder ==
    LevelCall
    => /\ \A k \in 1..Len(RawCalls) :
              RawCalls[k].op \in RawOpAllowed(k, Len(RawCalls))
       /\ Count({"createRawPixelsStore"}) <= 1
       /\ Count({"setResolutionLevel"}) <= 1
       /\ Count({"close"}) <= 1
       /\ pix = "absent" <=> RawCalls = <<>>
       /\ pix = "closed" <=> Count({"close"}) = 1
       /\ Count({"getPlane", "getTile"}) > 0 => resolutionLevel >= 0
       /\ pc = "returned" =>
              /\ Len(RawCalls) = 5 + Len(zct_list)
              /\ RawCalls[Len(RawCalls)].op = "close"

\* C28's case: a call at a level has returned after it bound the channel,
\* listed the resolutions, set the level, read four planes and closed.
C28_Witness ==
    /\ LevelCall
    /\ pc = "returned"
    /\ [k \in 1..Len(RawCalls) |-> RawCalls[k].op] =
           <<"createRawPixelsStore", "setPixelsId", "getResolutionDescriptions",
             "setResolutionLevel", "getPlane", "getPlane", "getPlane",
             "getPlane", "close">>

\* The wrapper has been left, by its return or by an exception.
WrapperLeft == wrapper_pc \in {"done", "raised"}

\* C29 as claimed: when get_image runs with across_groups enabled, the
\* group context of the connection after the call is the one the wrapper
\* captured before it, both when the inner call returns and when it raises
\* (an invalid argument, an out-of-bounds region, a failure of the server):
\* the connection is never left at all groups ('-1').
C29_GroupContextRestored ==
    (DoAcrossGroups(args.across_groups) /\ WrapperLeft)
    => /\ omeroGroup = current_group
       /\ omeroGroup # AllGroups

\* C30 as claimed: after the trimming of the overhang the effective fetch
\* length is >= 0 on every axis, for every request with non-negative
\* start_coords and positive axis_lengths: a start at or beyond the extent
\* leaves an empty, zero-length axis, and no negative length reaches the
\* enumeration of the ranges or a tile request.
C30_EffectiveLengthNonNegative ==
    (Fetching /\ PlainRequest)
    => /\ \A k \in 1..5 :
              /\ axis_lengths[k] >= 0
              /\ AskedStart[k] >= Extent[k] => axis_lengths[k] = 0
       /\ \A k \in 1..Len(calls) :
              calls[k].op \in TileReadOps
              => WindowOf(calls[k])[3] >= 0 /\ WindowOf(calls[k])[4] >= 0

====
